---- MODULE Spec2Model ----
(***************************************************************************)
(* Document generation orchestration of boots-and-honey:                   *)
(* DocumentService (generateDocuments, generateSingleDocument,             *)
(* retryDocument) over the order_documents table, the PDF facade and the   *)
(* storage client.  A step of a call is one request to the database or    *)
(* to the storage together with the code that runs, without suspension,    *)
(* until the next request is sent; calls of different requests interleave  *)
(* at these steps.                                                         *)
(***************************************************************************)
EXTENDS Integers, Sequences, FiniteSets, TLC

\* ------------------------------------------------------------------ bounds
MaxDocs == 2        \* rows the order_documents table can hold in the model
MaxCalls == 2       \* service calls started in one behaviour
MaxRetryCalls == 3   \* retryDocument calls started in one behaviour of SpecRetry
MaxEnsureCalls == 2  \* ensureBucket calls one caller makes in one behaviour
MaxFacadeCalls == 2  \* generateBothDocuments calls in one behaviour
MaxStored == 2       \* uploads of one type in the bucket when health is checked
MaxEnvWrites == 2    \* writes to process.env after the configuration is built
MaxTime == 2        \* last value of the millisecond clock in one behaviour
MaxIntakeCalls == 2  \* purchase order requests in one behaviour
MaxItems == 2        \* product lines in one purchase order request
MaxQuantity == 2     \* bundles asked for on one product line

\* --------------------------------------------------------------- constants
Callers == {"s1", "s2"}               \* the callers of ensureBucket
Procs == {"h1", "h2"}                 \* request handlers in flight at once
Orders == {"o1"}                      \* rows of the orders table
OrderIds == {"o1", "o2"}              \* ids a caller may pass ("o2" is absent)
NULL == "null"                        \* SQL NULL / JS undefined
NoDoc == [id |-> 0, fileUrl |-> "", status |-> "none", error |-> NULL]
RenderMessage == "render error"       \* message of a renderer exception
ProviderMessage == "x"                \* message of a storage provider error
InsertMessage == "insert error"       \* message of a database insert error
DuplicateMessage == "The resource already exists"  \* upload to a taken path
Times == 1..MaxTime                   \* the milliseconds of a behaviour

\* --------------------------------------------------------------------- state
VARIABLES
  docs,     \* the order_documents table; a row's id is its position
  pc,       \* where each handler's call stands
  call,     \* the locals of each handler's call
  ncalls,   \* calls started so far
  storage,  \* the objects in the bucket
  clock,    \* the millisecond Date.now() returned last
  config,   \* the configuration object of the process
  files,    \* the paths of the files in the local output directory
  bucket,   \* the storage provider's bucket of the configured name
  ensure,   \* the ensureBucket call of each caller
  facade,   \* the generateBothDocuments calls made and the value of the last
  health,   \* the getHealthStatus call
  env,      \* process.env
  writes,   \* writes to process.env since the configuration was constructed
  orders,   \* the ids of the rows of the orders table
  intake,   \* the purchase order request in flight
  sales     \* the amounts of the orders rows, order_items and order_addons

vars == <<docs, pc, call, ncalls, storage, clock, config, files,
          bucket, ensure, facade, health, env, writes, orders, intake, sales>>

\* the state that the storage setup, the facade and the health check leave
\* alone besides the document service's
outer == <<env, writes, orders, intake, sales>>

\* the state that generateDocuments, retryDocument and the routes leave alone
others == <<bucket, ensure, facade, health, outer>>

\* ----------------------------------------------------------------- helpers
Contains(s, sub) ==
  \E i \in 1..(Len(s) - Len(sub) + 1) : SubSeq(s, i, i + Len(sub) - 1) = sub

DocIds == 1..MaxDocs

\* request.documentType -> the generateSingleDocument calls, in program order
RequestedTypes_Single(documentType) ==
  IF documentType = "pick_slip" THEN <<"pick_slip">> ELSE <<"receipt">>

RequestedTypes_Swapped(documentType) ==
  IF documentType = "both" THEN <<"pick_slip", "receipt">>
  ELSE <<documentType>>

RequestedTypes(documentType) ==
  IF documentType = "both" THEN <<"receipt", "pick_slip">>
  ELSE <<documentType>>

\* fetchOrderData: the order row, or null when absent or on any error
FetchOrderData_Mut(orderId, dbOk) ==
  IF dbOk THEN orderId ELSE NULL

FetchOrderData(orderId, dbOk) ==
  IF orderId \in orders /\ dbOk THEN orderId ELSE NULL

\* the row createDocumentRecord inserts (column defaults of the migration)
NewDocumentRecord(orderId, documentType) ==
  [order_id |-> orderId, document_type |-> documentType,
   status |-> "pending", retry_count |-> 0,
   file_url |-> NULL, file_path |-> NULL, error_message |-> NULL]

\* the place of a row that the delete of its order has taken with it (ids
\* are positions, so the place stays), and the rows that are there
DeletedRow == [NewDocumentRecord(NULL, NULL) EXCEPT !.status = "deleted"]
Present(table, id) == id \in 1..Len(table) /\ table[id] # DeletedRow

\* order_id REFERENCES orders(id) ON DELETE CASCADE, with the cascade left out
CascadeDelete_None(table, orderId) == table
CascadeDelete(table, orderId) ==
  [i \in 1..Len(table) |->
     IF table[i].order_id = orderId THEN DeletedRow ELSE table[i]]

\* insert(...).select().single(): the table after the insert and the id of
\* the row it returned; every insert makes a new row with a fresh id
InsertRow_Upsert(table, row) ==
  IF \E i \in 1..Len(table) : table[i].order_id = row.order_id
                              /\ table[i].document_type = row.document_type
  THEN LET i == CHOOSE j \in 1..Len(table) :
                   table[j].order_id = row.order_id
                   /\ table[j].document_type = row.document_type
       IN [table |-> [table EXCEPT ![i] = row], id |-> i]
  ELSE [table |-> Append(table, row), id |-> Len(table) + 1]

InsertRow(table, row) ==
  [table |-> Append(table, row), id |-> Len(table) + 1]

\* updateDocumentRecord's update: undefined fields are not sent, so the
\* columns keep their values
UpdatedRecord_Recount(row, status, errorMessage, fileUrl, filePath) ==
  [row EXCEPT
     !.status = status,
     !.retry_count = IF status = "failed" THEN @ + 1 ELSE @,
     !.error_message = IF errorMessage = NULL THEN @ ELSE errorMessage,
     !.file_url = IF fileUrl = NULL THEN @ ELSE fileUrl,
     !.file_path = IF filePath = NULL THEN @ ELSE filePath]

UpdatedRecord_NoStatus(row, status, errorMessage, fileUrl, filePath) ==
  [row EXCEPT
     !.error_message = IF errorMessage = NULL THEN @ ELSE errorMessage,
     !.file_url = IF fileUrl = NULL THEN @ ELSE fileUrl,
     !.file_path = IF filePath = NULL THEN @ ELSE filePath]

UpdatedRecord_NoMessage(row, status, errorMessage, fileUrl, filePath) ==
  [row EXCEPT
     !.status = status,
     !.file_url = IF fileUrl = NULL THEN @ ELSE fileUrl,
     !.file_path = IF filePath = NULL THEN @ ELSE filePath]

UpdatedRecord(row, status, errorMessage, fileUrl, filePath) ==
  [row EXCEPT
     !.status = status,
     !.error_message = IF errorMessage = NULL THEN @ ELSE errorMessage,
     !.file_url = IF fileUrl = NULL THEN @ ELSE fileUrl,
     !.file_path = IF filePath = NULL THEN @ ELSE filePath]

\* retryDocument's update, from the row it read before
RetryUpdated(row, document) ==
  [row EXCEPT !.retry_count = document.retry_count + 1,
              !.status = "pending"]

\* storage path and public URL of an upload
StoragePath(folder, fileName) == folder \o "/" \o fileName
OrderNumber(orderId) == "PO-" \o orderId
FileName(documentType, orderNumber, now) ==
  documentType \o "_" \o orderNumber \o "_" \o ToString(now) \o ".pdf"
PublicUrl(storagePath) == "https://storage/" \o storagePath

\* uploadFile's results
UploadFailure(message) ==
  [success |-> FALSE, error |-> "Upload failed: " \o message,
   fileUrl |-> NULL, filePath |-> NULL]

UploadSuccess(storagePath) ==
  [success |-> TRUE, error |-> NULL,
   fileUrl |-> PublicUrl(storagePath), filePath |-> storagePath]

\* an object of the bucket: its path and the file buffer it holds, named by
\* the tracking row of the pass that rendered the file
Object(storagePath, content) == [path |-> storagePath, content |-> content]
Taken(stored, storagePath) == \E o \in stored : o.path = storagePath

\* uploadFile: the provider rejects the upload, or the path is taken and
\* upsert is off, or the object is stored
UploadFile_Upsert(stored, storagePath, content, ok) ==
  IF ~ok THEN [result |-> UploadFailure(ProviderMessage), stored |-> stored]
  ELSE [result |-> UploadSuccess(storagePath),
        stored |-> {o \in stored : o.path # storagePath}
                     \cup {Object(storagePath, content)}]

UploadFile(stored, storagePath, content, ok) ==
  IF ~ok THEN [result |-> UploadFailure(ProviderMessage), stored |-> stored]
  ELSE IF Taken(stored, storagePath)
  THEN [result |-> UploadFailure(DuplicateMessage), stored |-> stored]
  ELSE [result |-> UploadSuccess(storagePath),
        stored |-> stored \cup {Object(storagePath, content)}]

NoUpload == [success |-> FALSE, error |-> NULL, fileUrl |-> NULL, filePath |-> NULL]

\* generateReceipt / generatePickSlip: the path of the file they write
OutputDir == "/tmp/documents"
LocalPrefix(documentType) ==
  IF documentType = "receipt" THEN "receipt" ELSE "pickslip"
LocalPath(documentType, orderNumber, now) ==
  OutputDir \o "/" \o LocalPrefix(documentType) \o "_" \o orderNumber
            \o "_" \o ToString(now) \o ".pdf"

\* fs.writeFileSync and fs.unlinkSync on the output directory
WriteFile(dir, filePath) == dir \cup {filePath}
Unlink_Keep(dir, filePath) == dir
Unlink(dir, filePath) == dir \ {filePath}

\* generateReceipt / generatePickSlip results
PdfFailure(message) == [success |-> FALSE, error |-> message]
PdfSuccess == [success |-> TRUE, error |-> NULL]

\* Object.values(response.documents).some(doc => doc?.status === 'failed')
HasFailures_ReceiptOnly(documents) ==
  documents.receipt.status = "failed"

HasFailures(documents) ==
  documents.receipt.status = "failed" \/ documents.pickSlip.status = "failed"

NoDocuments == [receipt |-> NoDoc, pickSlip |-> NoDoc]

EmptyResponse == [success |-> TRUE, documents |-> NoDocuments, error |-> NULL]

ErrorResponse(message) ==
  [success |-> FALSE, documents |-> NoDocuments, error |-> message]

\* the message getOrderDocuments throws with
SelectMessage == "select error"
FetchError(message) == "Failed to fetch documents: " \o message

\* the message createDocumentRecord throws with
CreateError(message) == "Failed to create document record: " \o message

\* response.documents.receipt = ... / response.documents.pickSlip = ...
WithDocument(response, documentType, entry) ==
  IF documentType = "receipt"
  THEN [response EXCEPT !.documents.receipt = entry]
  ELSE [response EXCEPT !.documents.pickSlip = entry]

\* lines 365-372: the aggregate success flag
Aggregate(response) ==
  IF HasFailures(response.documents)
  THEN [response EXCEPT !.success = FALSE,
                        !.error = "One or more documents failed to generate"]
  ELSE response

\* retryDocument's `document`: the columns of the selected row it uses
Selected(row) ==
  [order_id |-> row.order_id, document_type |-> row.document_type,
   retry_count |-> row.retry_count]

NoRecord == [order_id |-> NULL, document_type |-> NULL, retry_count |-> 0]

\* ------------------------------------------------------- configuration
\* process.env[key] of a variable that is not set; !value holds for it and
\* for the empty string
Unset == ""

\* the values the model gives to the flags, the secrets and the numbers
FlagValues == {Unset, "true", "TRUE", "false"}
SecretValues == {Unset, "set"}
NumberValues == {Unset, "5", "abc"}

\* the environment variables the configuration object looks at
EnvKeys ==
  {"ENABLE_DOCUMENT_GENERATION", "ENABLE_RECEIPT_GENERATION",
   "ENABLE_PICK_SLIP_GENERATION", "DOCUMENT_GENERATION_MAX_RETRIES",
   "ENABLE_EMAIL_NOTIFICATIONS", "SMTP_FROM_EMAIL", "RESEND_API_KEY",
   "ENABLE_WEBHOOK_PROCESSING", "WEBHOOK_SECRET",
   "NEXT_PUBLIC_SUPABASE_URL", "SUPABASE_SERVICE_ROLE_KEY"}
ValuesOf(key) ==
  IF key \in {"ENABLE_DOCUMENT_GENERATION", "ENABLE_RECEIPT_GENERATION",
              "ENABLE_PICK_SLIP_GENERATION", "ENABLE_EMAIL_NOTIFICATIONS",
              "ENABLE_WEBHOOK_PROCESSING"} THEN FlagValues
  ELSE IF key = "DOCUMENT_GENERATION_MAX_RETRIES" THEN NumberValues
  ELSE SecretValues

\* value.toLowerCase() and parseInt(value, 10) on the values of the model
ToLowerCase(value) ==
  IF value = "TRUE" THEN "true"
  ELSE IF value = "PREMIUM" THEN "premium"
  ELSE value
IsNaN(value) == value # "5"
ParseInt(value) == IF value = "5" THEN 5 ELSE 0

\* getString, getNumber and getBoolean, lines 95-113, on the value read
GetString(value, defaultValue) ==
  IF value = Unset THEN defaultValue ELSE value
GetNumber(value, defaultValue) ==
  IF value = Unset THEN defaultValue
  ELSE IF IsNaN(value) THEN defaultValue ELSE ParseInt(value)
GetBoolean(value, defaultValue) ==
  IF value = Unset THEN defaultValue ELSE ToLowerCase(value) = "true"

\* loadConfig, lines 54-93: the sections and fields the predicates and the
\* validation functions read
LoadConfig(e) ==
  [documentGeneration |->
     [enabled |-> GetBoolean(e["ENABLE_DOCUMENT_GENERATION"], FALSE),
      receiptEnabled |-> GetBoolean(e["ENABLE_RECEIPT_GENERATION"], FALSE),
      pickSlipEnabled |-> GetBoolean(e["ENABLE_PICK_SLIP_GENERATION"], FALSE),
      maxRetries |-> GetNumber(e["DOCUMENT_GENERATION_MAX_RETRIES"], 2)],
   email |->
     [enabled |-> GetBoolean(e["ENABLE_EMAIL_NOTIFICATIONS"], FALSE),
      fromEmail |-> GetString(e["SMTP_FROM_EMAIL"], "orders@bootsandhoney.com")],
   webhook |->
     [enabled |-> GetBoolean(e["ENABLE_WEBHOOK_PROCESSING"], FALSE),
      secret |-> GetString(e["WEBHOOK_SECRET"], "")]]

\* whether the environment holds the Supabase credentials getSupabase reads
HasCredentials(e) ==
  e["NEXT_PUBLIC_SUPABASE_URL"] # Unset /\ e["SUPABASE_SERVICE_ROLE_KEY"] # Unset

\* the configuration of a process: the snapshot the constructor takes of
\* the environment, and whether the credentials are there
Snapshot(e) ==
  [documentGeneration |-> LoadConfig(e).documentGeneration,
   email |-> LoadConfig(e).email,
   webhook |-> LoadConfig(e).webhook,
   credentials |-> HasCredentials(e)]

\* an environment that sets the generation flag and the credentials or not,
\* and nothing else
Env(enabled, credentials) ==
  [key \in EnvKeys |->
     IF key = "ENABLE_DOCUMENT_GENERATION" /\ enabled THEN "true"
     ELSE IF key \in {"NEXT_PUBLIC_SUPABASE_URL", "SUPABASE_SERVICE_ROLE_KEY"}
             /\ credentials THEN "set"
     ELSE Unset]
Config(enabled, credentials) == Snapshot(Env(enabled, credentials))

\* ---------------------------------------------------------- route handlers
\* the feature flag helpers of the configuration object
CanGenerateDocuments(cfg) == cfg.documentGeneration.enabled
CanGenerateReceipts(cfg) ==
  cfg.documentGeneration.enabled /\ cfg.documentGeneration.receiptEnabled
CanGeneratePickSlips(cfg) ==
  cfg.documentGeneration.enabled /\ cfg.documentGeneration.pickSlipEnabled
\* canSendEmails reading the environment at the time of the call
CanSendEmails_Live(cfg) == GetBoolean(env["ENABLE_EMAIL_NOTIFICATIONS"], FALSE)
CanSendEmails(cfg) == cfg.email.enabled
CanProcessWebhooks(cfg) == cfg.webhook.enabled

\* the report of a validation function
Report(errors) == [valid |-> Len(errors) = 0, errors |-> errors]
Required(missing, message) == IF missing THEN <<message>> ELSE <<>>

\* validateEmailConfig, lines 137-153, which reads RESEND_API_KEY from the
\* environment e of the time of the call
ValidateEmailConfig(cfg, e) ==
  Report(IF cfg.email.enabled
         THEN Required(GetString(e["RESEND_API_KEY"], "") = "",
                       "RESEND_API_KEY is required when email notifications are enabled")
              \o Required(cfg.email.fromEmail = "",
                          "SMTP_FROM_EMAIL is required when email notifications are enabled")
         ELSE <<>>)

\* validateWebhookConfig, lines 155-168
ValidateWebhookConfig(cfg) ==
  Report(IF cfg.webhook.enabled
         THEN Required(cfg.webhook.secret = "",
                       "WEBHOOK_SECRET is required when webhook processing is enabled")
         ELSE <<>>)

\* validateStorageConfig, lines 170-189, which reads the two credentials
\* from the environment e of the time of the call
ValidateStorageConfig(cfg, e) ==
  Report(IF cfg.documentGeneration.enabled
         THEN Required(GetString(e["NEXT_PUBLIC_SUPABASE_URL"], "") = "",
                       "NEXT_PUBLIC_SUPABASE_URL is required for document storage")
              \o Required(GetString(e["SUPABASE_SERVICE_ROLE_KEY"], "") = "",
                          "SUPABASE_SERVICE_ROLE_KEY is required for document storage")
         ELSE <<>>)

\* validateAll, lines 192-208
ValidateAll(cfg, e) ==
  Report(ValidateEmailConfig(cfg, e).errors \o ValidateWebhookConfig(cfg).errors
         \o ValidateStorageConfig(cfg, e).errors)

\* the results of the five predicates
Predicates(cfg) ==
  <<CanGenerateDocuments(cfg), CanGenerateReceipts(cfg),
    CanGeneratePickSlips(cfg), CanSendEmails(cfg), CanProcessWebhooks(cfg)>>

\* the reports of the validation functions
Validations(cfg, e) ==
  <<ValidateEmailConfig(cfg, e), ValidateWebhookConfig(cfg),
    ValidateStorageConfig(cfg, e), ValidateAll(cfg, e)>>

\* NextResponse.json(body, {status}); NoReply: the handler has not returned
JsonReply(status, success, error) ==
  [status |-> status, success |-> success, error |-> error]
NoReply == JsonReply(0, FALSE, NULL)

Disabled == JsonReply(503, FALSE, "Document generation is currently disabled")

\* an absent field of the request body or an empty path parameter
Missing == ""
NoId == 0
ValidTypes == {"receipt", "pick_slip", "both"}

\* POST /api/documents/generate, lines 68-113: the replies made before
\* generateDocuments is called
GenerateChecks_FlagLast(canGenerate, body) ==
  IF body.orderId = Missing
  THEN JsonReply(400, FALSE, "orderId is required")
  ELSE IF body.documentType = Missing
  THEN JsonReply(400, FALSE, "documentType is required")
  ELSE IF body.documentType \notin ValidTypes
  THEN JsonReply(400, FALSE, "documentType must be one of: receipt, pick_slip, both")
  ELSE IF ~canGenerate THEN Disabled
  ELSE NoReply

GenerateChecks(canGenerate, body) ==
  IF ~canGenerate THEN Disabled
  ELSE IF body.orderId = Missing
  THEN JsonReply(400, FALSE, "orderId is required")
  ELSE IF body.documentType = Missing
  THEN JsonReply(400, FALSE, "documentType is required")
  ELSE IF body.documentType \notin ValidTypes
  THEN JsonReply(400, FALSE, "documentType must be one of: receipt, pick_slip, both")
  ELSE NoReply

\* POST /api/documents/retry/[documentId], lines 20-41
RetryChecks(canGenerate, documentId) ==
  IF documentId = NoId THEN JsonReply(400, FALSE, "documentId is required")
  ELSE IF ~canGenerate THEN Disabled
  ELSE NoReply

\* getSupabase: the client, or the exception it throws without credentials
MissingCredentials == "Missing Supabase credentials for document service"
GetSupabase(cfg) == IF cfg.credentials THEN NULL ELSE MissingCredentials

\* the catch blocks of the routes: the reply to an exception of the service
CaughtReply(kind) ==
  JsonReply(500, FALSE,
            IF kind = "retryDocument"
            THEN "Internal server error during document retry"
            ELSE IF kind = "getOrderDocuments"
            THEN "Failed to fetch order documents"
            ELSE "Internal server error during document generation")

\* both routes: the reply made from the result of the service
ServiceReply(result) ==
  JsonReply(IF result.success THEN 200 ELSE 500, result.success, result.error)

IdleCall ==
  [kind |-> "none", orderId |-> NULL, documentType |-> NULL,
   documentId |-> 0, document |-> NoRecord,
   idx |-> 0, documentRecord |-> 0,
   pdfResult |-> PdfSuccess, uploadResult |-> NoUpload,
   response |-> EmptyResponse, early |-> NoReply, thrown |-> NULL,
   created |-> <<>>, updated |-> {},
   rendered |-> <<>>, uploaded |-> <<>>, filePath |-> NULL]

\* a row that an earlier pass left failed
\* the provider's bucket: whether it is there, how often it was created and
\* whether the provider has answered with a fault of its own
Bucket(exists) == [exists |-> exists, created |-> 0, faulty |-> FALSE]

\* ensureBucket results
BucketSuccess == [success |-> TRUE, error |-> NULL]
BucketFailure(message) == [success |-> FALSE, error |-> message]

\* an ensureBucket caller that has made no call yet
IdleEnsure == [pc |-> "idle", result |-> BucketFailure(NULL), n |-> 0]

\* DocumentGenerationResult of the facade
GenerationSuccess(filePath) ==
  [success |-> TRUE, filePath |-> filePath, error |-> NULL]
GenerationFailure(message) ==
  [success |-> FALSE, filePath |-> NULL, error |-> message]

\* what one generation meets: whether the template renders, whether the
\* write goes through, and the millisecond its file name carries
Meets(renderOk, writeOk, now) ==
  [renderOk |-> renderOk, writeOk |-> writeOk, now |-> now]

\* no generateBothDocuments call made yet; before, orderData, filename and
\* meets keep the arguments and the surroundings of the last call
IdleFacade ==
  [n |-> 0, before |-> {}, orderData |-> NULL, filename |-> NULL,
   meets |-> [receipt |-> Meets(TRUE, TRUE, 0), pickSlip |-> Meets(TRUE, TRUE, 0)],
   result |-> [receipt |-> GenerationFailure(NULL),
               pickSlip |-> GenerationFailure(NULL)]]
\* getStorageStats' result, as far as getHealthStatus looks at it
StorageStats(totalFiles) == [totalFiles |-> totalFiles]

\* the value of getHealthStatus' catch block
Unhealthy(message) ==
  [healthy |-> FALSE, database |-> FALSE, storage |-> FALSE,
   configuration |-> FALSE, error |-> message, storageStats |-> StorageStats(0)]

\* no getHealthStatus call in flight; dbError and listError are the errors
\* the two requests of the call came back with
IdleHealth ==
  [pc |-> "idle", dbError |-> NULL, listError |-> NULL, result |-> Unhealthy(NULL)]

FailedRow ==
  UpdatedRecord(NewDocumentRecord("o1", "receipt"), "failed", RenderMessage,
                NULL, NULL)

\* the tables with no purchase order in them
NoSales == [orders |-> {}, order_items |-> <<>>, order_addons |-> {}]

\* no purchase order request in flight
NoAddon == [id |-> NULL, name |-> NULL, price |-> 0]
NoIntakeReply ==
  [status |-> 0, success |-> FALSE, error |-> NULL,
   orderId |-> NULL, totalAmount |-> 0]
IdleIntake ==
  [pc |-> "idle", n |-> 0,
   body |-> [products |-> <<>>, deliverySelected |-> FALSE],
   orderItemsData |-> <<>>, productTotal |-> 0, addonTotal |-> 0,
   deliveryAddon |-> NoAddon, order |-> NULL, reply |-> NoIntakeReply]

\* a process with generation enabled starts on an empty table; a process with
\* generation disabled finds a row that an earlier process left failed
Init ==
  /\ \E enabled \in BOOLEAN, credentials \in BOOLEAN :
       /\ env = Env(enabled, credentials)
       /\ docs = IF enabled THEN <<>> ELSE <<FailedRow>>
  /\ config = Snapshot(env)
  /\ pc = [p \in Procs |-> "idle"]
  /\ call = [p \in Procs |-> IdleCall]
  /\ ncalls = 0
  /\ storage = {}
  /\ clock = 0
  /\ files = {}
  /\ bucket = Bucket(TRUE)
  /\ ensure = [e \in Callers |-> IdleEnsure]
  /\ facade = IdleFacade
  /\ health = IdleHealth
  /\ writes = 0
  /\ orders = Orders
  /\ intake = IdleIntake
  /\ sales = NoSales

\* ------------------------------------------------------------------- actions
\* a handler is free when it has no call in flight; a new call takes the
\* first free handler
Free(q) == pc[q] \in {"idle", "done"}
FirstFree(p) == p = "h1" \/ ~Free("h1")

\* in Spec each endpoint has one request in flight at a time: h1 serves the
\* generate endpoint and h2 the retry endpoint, whose call runs a
\* generateDocuments of its own; SpecRetry overlaps retryDocument calls
GenerateHandler(p) == p = "h1"
RetryHandler(p) == p = "h2"

\* handler p's call gets the local state c and goes to label; the local state
\* of a call that has returned before this step is gone
Set(p, c) ==
  call' = [q \in Procs |-> IF q = p THEN c
                           ELSE IF pc[q] = "done" THEN IdleCall ELSE call[q]]
Goto(p, label) ==
  pc' = [q \in Procs |-> IF q = p THEN label
                         ELSE IF pc[q] = "done" THEN "idle" ELSE pc[q]]

\* the document type the call is generating now
CurrentType(c) == RequestedTypes(c.documentType)[c.idx]

\* fetchOrderData has returned: generateDocuments, lines 331-343
AfterFetch(c, dbOk) ==
  IF FetchOrderData(c.orderId, dbOk /\ GetSupabase(config) = NULL) = NULL
  THEN [call |-> [c EXCEPT !.response = ErrorResponse("Order not found")],
        pc |-> "done"]
  ELSE [call |-> [c EXCEPT !.response = EmptyResponse, !.idx = 1],
        pc |-> "create"]

\* a handler that has no call in flight invokes
\* generateDocuments({orderId, documentType}), which fetches the order
StartGenerate(p, orderId, documentType, dbOk) ==
  /\ Free(p) /\ GenerateHandler(p)
  /\ GenerateChecks(CanGenerateDocuments(config),
                    [orderId |-> orderId, documentType |-> documentType]) = NoReply
  /\ ncalls < MaxCalls
  /\ ncalls' = ncalls + 1
  /\ LET f == AfterFetch([IdleCall EXCEPT !.kind = "generateDocuments",
                                          !.orderId = orderId,
                                          !.documentType = documentType], dbOk)
     IN Set(p, f.call) /\ Goto(p, f.pc)
  /\ UNCHANGED <<docs, storage, clock, config, files, others>>

\* the select of retryDocument has returned, lines 636-648, or getSupabase
\* has thrown, which nothing in retryDocument catches
AfterSelect(c, dbOk) ==
  IF GetSupabase(config) # NULL
  THEN [call |-> [c EXCEPT !.thrown = GetSupabase(config)], pc |-> "done"]
  ELSE IF dbOk /\ Present(docs, c.documentId)
  THEN [call |-> [c EXCEPT !.document = Selected(docs[c.documentId])],
        pc |-> "increment"]
  ELSE [call |-> [c EXCEPT !.response = ErrorResponse("Document record not found")],
        pc |-> "done"]

\* a handler that has no call in flight invokes retryDocument(documentId),
\* which selects the row by id
StartRetry(p, documentId, dbOk) ==
  /\ Free(p) /\ RetryHandler(p)
  /\ RetryChecks(CanGenerateDocuments(config), documentId) = NoReply
  /\ ncalls < MaxCalls
  /\ ncalls' = ncalls + 1
  /\ LET f == AfterSelect([IdleCall EXCEPT !.kind = "retryDocument",
                                           !.documentId = documentId], dbOk)
     IN Set(p, f.call) /\ Goto(p, f.pc)
  /\ UNCHANGED <<docs, storage, clock, config, files, others>>

\* a request to the generate endpoint that the route answers itself, before
\* it calls the service
RejectGenerate(p, orderId, documentType) ==
  /\ Free(p) /\ GenerateHandler(p)
  /\ ncalls < MaxCalls
  /\ ncalls' = ncalls + 1
  /\ LET reply == GenerateChecks(CanGenerateDocuments(config),
                     [orderId |-> orderId, documentType |-> documentType])
     IN /\ reply # NoReply
        /\ Set(p, [IdleCall EXCEPT !.kind = "generateRequest",
                                   !.orderId = orderId,
                                   !.documentType = documentType,
                                   !.early = reply])
  /\ Goto(p, "done")
  /\ UNCHANGED <<docs, storage, clock, config, files, others>>

\* a request to the retry endpoint that the route answers itself
RejectRetry(p, documentId) ==
  /\ Free(p) /\ RetryHandler(p)
  /\ ncalls < MaxCalls
  /\ ncalls' = ncalls + 1
  /\ LET reply == RetryChecks(CanGenerateDocuments(config), documentId)
     IN /\ reply # NoReply
        /\ Set(p, [IdleCall EXCEPT !.kind = "retryRequest",
                                   !.documentId = documentId,
                                   !.early = reply])
  /\ Goto(p, "done")
  /\ UNCHANGED <<docs, storage, clock, config, files, others>>

\* GET /api/documents/[orderId] with an orderId: getOrderDocuments, which
\* throws on a select error and when getSupabase throws; the rows it returns
\* are GetOrderDocuments(docs, orderId)
GetDocuments(p, orderId, dbOk) ==
  /\ Free(p)
  /\ ncalls < MaxCalls
  /\ ncalls' = ncalls + 1
  /\ Set(p, [IdleCall EXCEPT
               !.kind = "getOrderDocuments",
               !.orderId = orderId,
               !.thrown = IF GetSupabase(config) # NULL THEN GetSupabase(config)
                          ELSE IF ~dbOk THEN FetchError(SelectMessage)
                          ELSE NULL])
  /\ Goto(p, "done")
  /\ UNCHANGED <<docs, storage, clock, config, files, others>>

\* retryDocument, lines 650-664: write retry_count and status (the result of
\* the update is not looked at), then call generateDocuments
RetryIncrement(p, dbOk) ==
  /\ pc[p] = "increment"
  /\ docs' = IF dbOk /\ Present(docs, call[p].documentId)
             THEN [docs EXCEPT ![call[p].documentId] =
                                  RetryUpdated(@, call[p].document)]
             ELSE docs
  /\ Set(p, [call[p] EXCEPT
               !.orderId = call[p].document.order_id,
               !.documentType = call[p].document.document_type,
               !.updated = IF dbOk THEN @ \cup {call[p].documentId} ELSE @])
  /\ Goto(p, "fetch")
  /\ UNCHANGED <<ncalls, storage, clock, config, files, others>>

\* generateDocuments called by retryDocument, lines 330-343
Fetch(p, dbOk) ==
  /\ pc[p] = "fetch"
  /\ LET f == AfterFetch(call[p], dbOk)
     IN Set(p, f.call) /\ Goto(p, f.pc)
  /\ UNCHANGED <<docs, ncalls, storage, clock, config, files, others>>

\* generateSingleDocument, lines 396-418: createDocumentRecord, whose throw
\* is outside the try block and reaches the catch of generateDocuments, then
\* the render through the facade, which runs without a suspension and
\* writes the file under a name that carries Date.now(); uploadFile reads
\* the file in the same run of the event loop as the write. The write reads
\* the millisecond the clock returned last; the clock moves on at the read
\* of the upload
Create(p, dbOk, renderOk) ==
  /\ pc[p] = "create"
  /\ IF dbOk /\ Len(docs) < MaxDocs /\ call[p].orderId \in orders
     THEN LET ins == InsertRow(docs, NewDocumentRecord(call[p].orderId,
                                                      CurrentType(call[p])))
              filePath == LocalPath(CurrentType(call[p]),
                                    OrderNumber(call[p].orderId),
                                    IF clock = 0 THEN 1 ELSE clock)
          IN /\ docs' = ins.table
             /\ Set(p, [call[p] EXCEPT
                          !.documentRecord = ins.id,
                          !.created = Append(@, ins.id),
                          !.rendered = Append(@, CurrentType(call[p])),
                          !.filePath = IF renderOk THEN filePath ELSE NULL,
                          !.pdfResult = IF renderOk THEN PdfSuccess
                                        ELSE PdfFailure(RenderMessage)])
             /\ files' = IF renderOk THEN WriteFile(files, filePath) ELSE files
             /\ Goto(p, IF renderOk THEN "upload" ELSE "update")
     ELSE /\ docs' = docs
          /\ Set(p, [call[p] EXCEPT
                       !.response = ErrorResponse(CreateError(InsertMessage))])
          /\ files' = files
          /\ Goto(p, "done")
  /\ UNCHANGED <<ncalls, storage, clock, config, others>>

\* generateSingleDocument, lines 420-436: storageService.uploadFile under a
\* file name that carries Date.now()
Upload(p, ok, now) ==
  /\ pc[p] = "upload"
  /\ now \in {clock, clock + 1}
  /\ clock' = IF ok THEN now ELSE clock
  /\ LET fileName == FileName(CurrentType(call[p]),
                              OrderNumber(call[p].orderId), now)
         up == UploadFile(storage, StoragePath("documents", fileName),
                          call[p].documentRecord, ok)
     IN /\ Set(p, [call[p] EXCEPT
                     !.uploadResult = up.result,
                     !.uploaded = Append(@, CurrentType(call[p]))])
        /\ storage' = up.stored
  /\ Goto(p, "update")
  /\ UNCHANGED <<docs, ncalls, config, files, others>>

\* a pass taken for generated as soon as its render succeeded
PassStatus_RenderOnly(c) ==
  IF c.pdfResult.success THEN "generated" ELSE "failed"

\* the arguments of the updateDocumentRecord call the pass makes
PassStatus(c) ==
  IF c.pdfResult.success /\ c.uploadResult.success THEN "generated" ELSE "failed"

PassError(c) ==
  IF ~c.pdfResult.success THEN c.pdfResult.error
  ELSE IF ~c.uploadResult.success THEN c.uploadResult.error
  ELSE NULL

\* the value generateSingleDocument returns
PassEntry(c) ==
  [id |-> c.documentRecord,
   fileUrl |-> IF PassStatus(c) = "generated" THEN c.uploadResult.fileUrl ELSE "",
   status |-> PassStatus(c),
   error |-> PassError(c)]

\* generateSingleDocument, lines 411/429/439 with updateDocumentRecord (an
\* update error is swallowed), the unlink of the local file on the generated
\* path only, the return of the pass, and in generateDocuments
\* the next requested type or the aggregation of lines 365-372
Update(p, dbOk) ==
  /\ pc[p] = "update"
  /\ LET c == call[p]
         r == WithDocument(c.response, CurrentType(c), PassEntry(c))
         last == c.idx = Len(RequestedTypes(c.documentType))
     IN /\ docs' = IF dbOk /\ Present(docs, c.documentRecord)
                   THEN [docs EXCEPT ![c.documentRecord] =
                           UpdatedRecord(@, PassStatus(c), PassError(c),
                                         c.uploadResult.fileUrl,
                                         c.uploadResult.filePath)]
                   ELSE docs
        /\ Set(p, [c EXCEPT
                     !.response = IF last THEN Aggregate(r) ELSE r,
                     !.idx = IF last THEN @ ELSE @ + 1,
                     !.updated = IF dbOk THEN @ \cup {c.documentRecord} ELSE @,
                     !.pdfResult = PdfSuccess,
                     !.uploadResult = NoUpload,
                     !.filePath = NULL])
        /\ files' = IF PassStatus(c) = "generated"
                    THEN Unlink(files, c.filePath) ELSE files
        /\ Goto(p, IF last THEN "done" ELSE "create")
  /\ UNCHANGED <<ncalls, storage, clock, config, others>>

\* what a request body or path may carry
BodyOrderIds == OrderIds \cup {Missing}
BodyTypes == ValidTypes \cup {Missing, "invoice"}
PathIds == DocIds \cup {NoId}

Next ==
  \/ \E p \in Procs, o \in OrderIds, t \in {"receipt", "pick_slip", "both"},
          dbOk \in BOOLEAN : StartGenerate(p, o, t, dbOk)
  \/ \E p \in Procs, d \in DocIds, dbOk \in BOOLEAN : StartRetry(p, d, dbOk)
  \/ \E p \in Procs, o \in BodyOrderIds, t \in BodyTypes : RejectGenerate(p, o, t)
  \/ \E p \in Procs, d \in PathIds : RejectRetry(p, d)
  \/ \E p \in Procs, o \in OrderIds, dbOk \in BOOLEAN : GetDocuments(p, o, dbOk)
  \/ \E p \in Procs, dbOk \in BOOLEAN : RetryIncrement(p, dbOk)
  \/ \E p \in Procs, dbOk \in BOOLEAN : Fetch(p, dbOk)
  \/ \E p \in Procs, dbOk \in BOOLEAN, renderOk \in BOOLEAN :
        Create(p, dbOk, renderOk)
  \/ \E p \in Procs, ok \in BOOLEAN, now \in Times : Upload(p, ok, now)
  \/ \E p \in Procs, dbOk \in BOOLEAN : Update(p, dbOk)

Spec == Init /\ [][Next]_vars

\* A workload of retryDocument calls on a row that an earlier pass left failed
InitRetry ==
  /\ docs = <<FailedRow>>
  /\ pc = [p \in Procs |-> "idle"]
  /\ call = [p \in Procs |-> IdleCall]
  /\ ncalls = 0
  /\ storage = {}
  /\ clock = 0
  /\ files = {}
  /\ bucket = Bucket(TRUE)
  /\ ensure = [e \in Callers |-> IdleEnsure]
  /\ facade = IdleFacade
  /\ health = IdleHealth
  /\ writes = 0
  /\ orders = Orders
  /\ intake = IdleIntake
  /\ sales = NoSales
  /\ env = Env(TRUE, TRUE)
  /\ config = Snapshot(env)

StartRetryOnly(p, documentId, dbOk) ==
  /\ Free(p) /\ FirstFree(p)
  /\ RetryChecks(CanGenerateDocuments(config), documentId) = NoReply
  /\ ncalls < MaxRetryCalls
  /\ ncalls' = ncalls + 1
  /\ LET f == AfterSelect([IdleCall EXCEPT !.kind = "retryDocument",
                                           !.documentId = documentId], dbOk)
     IN Set(p, f.call) /\ Goto(p, f.pc)
  /\ UNCHANGED <<docs, storage, clock, config, files, others>>

NextRetry ==
  \/ \E p \in Procs, d \in DocIds, dbOk \in BOOLEAN : StartRetryOnly(p, d, dbOk)
  \/ \E p \in Procs, dbOk \in BOOLEAN : RetryIncrement(p, dbOk)
  \/ \E p \in Procs, dbOk \in BOOLEAN : Fetch(p, dbOk)
  \/ \E p \in Procs, dbOk \in BOOLEAN, renderOk \in BOOLEAN :
        Create(p, dbOk, renderOk)
  \/ \E p \in Procs, ok \in BOOLEAN, now \in Times : Upload(p, ok, now)
  \/ \E p \in Procs, dbOk \in BOOLEAN : Update(p, dbOk)

SpecRetry == InitRetry /\ [][NextRetry]_vars

\* ------------------------------------------------------ ensureBucket
\* the messages of the storage provider
BucketNotFound == "Bucket not found"
AlreadyExists == "The resource already exists"
ProviderFault == "fetch failed"
MissingStorageCredentials == "Missing Supabase credentials for storage service"

\* error.message.includes('not found')
IncludesNotFound(message) == message = BucketNotFound

\* the provider's answer to storage.getBucket: the error, NULL when there is
\* none
GetBucket(b, ok) ==
  IF ~ok THEN ProviderFault
  ELSE IF b.exists THEN NULL ELSE BucketNotFound

\* the provider's answer to storage.createBucket, which refuses a name that
\* is taken
CreateBucket(b, ok) ==
  IF ~ok THEN [error |-> ProviderFault, bucket |-> b]
  ELSE IF b.exists THEN [error |-> AlreadyExists, bucket |-> b]
  ELSE [error |-> NULL,
        bucket |-> [b EXCEPT !.exists = TRUE, !.created = @ + 1]]

\* ensureBucket, line 632: the condition under which it goes on to createBucket
CreatesAfter(error) == error # NULL /\ IncludesNotFound(error)

\* the provider has answered with a fault of its own
Faulty(b, ok) == [b EXCEPT !.faulty = @ \/ ~ok]

\* ensureBucket, lines 627-630: getSupabase, whose throw the catch turns
\* into a result, then the getBucket request
EnsureStart(e) ==
  /\ ensure[e].pc \in {"idle", "done"}
  /\ ensure[e].n < MaxEnsureCalls
  /\ ensure' = [ensure EXCEPT
                  ![e] = IF config.credentials
                         THEN [pc |-> "getBucket",
                               result |-> BucketFailure(NULL), n |-> @.n + 1]
                         ELSE [pc |-> "done",
                               result |-> BucketFailure(MissingStorageCredentials),
                               n |-> @.n + 1]]
  /\ UNCHANGED <<docs, pc, call, ncalls, storage, clock, config, files,
                 bucket, facade, health, outer>>

\* ensureBucket, lines 630-659: the answer to getBucket
EnsureGet(e, ok) ==
  /\ ensure[e].pc = "getBucket"
  /\ LET error == GetBucket(bucket, ok)
     IN ensure' = [ensure EXCEPT
                     ![e].pc = IF CreatesAfter(error) THEN "createBucket" ELSE "done",
                     ![e].result =
                        IF CreatesAfter(error) THEN @
                        ELSE IF error # NULL
                        THEN BucketFailure("Bucket check failed: " \o error)
                        ELSE BucketSuccess]
  /\ bucket' = Faulty(bucket, ok)
  /\ UNCHANGED <<docs, pc, call, ncalls, storage, clock, config, files,
                 facade, health, outer>>

\* ensureBucket, lines 634-648: the answer to createBucket
EnsureCreate(e, ok) ==
  /\ ensure[e].pc = "createBucket"
  /\ LET made == CreateBucket(bucket, ok)
     IN /\ ensure' = [ensure EXCEPT
                        ![e].pc = "done",
                        ![e].result =
                           IF made.error # NULL
                           THEN BucketFailure("Failed to create bucket: "
                                              \o made.error)
                           ELSE BucketSuccess]
        /\ bucket' = Faulty(made.bucket, ok)
  /\ UNCHANGED <<docs, pc, call, ncalls, storage, clock, config, files,
                 facade, health, outer>>

\* callers of ensureBucket on a project that has the bucket or lacks it
InitBucket ==
  /\ \E credentials \in BOOLEAN : env = Env(TRUE, credentials)
  /\ config = Snapshot(env)
  /\ \E exists \in BOOLEAN : bucket = Bucket(exists)
  /\ docs = <<>>
  /\ pc = [p \in Procs |-> "idle"]
  /\ call = [p \in Procs |-> IdleCall]
  /\ ncalls = 0
  /\ storage = {}
  /\ clock = 0
  /\ files = {}
  /\ ensure = [e \in Callers |-> IdleEnsure]
  /\ facade = IdleFacade
  /\ health = IdleHealth
  /\ writes = 0
  /\ orders = Orders
  /\ intake = IdleIntake
  /\ sales = NoSales

NextBucket ==
  \/ \E e \in Callers : EnsureStart(e)
  \/ \E e \in Callers, ok \in BOOLEAN : EnsureGet(e, ok)
  \/ \E e \in Callers, ok \in BOOLEAN : EnsureCreate(e, ok)

SpecBucket == InitBucket /\ [][NextBucket]_vars

\* ----------------------------------------------- generateBothDocuments
WriteMessage == "ENOSPC: no space left on device"

\* generateReceipt / generatePickSlip, lines 45-83 and 85-123: render, name
\* the file (options.filename when given), write it; the catch turns every
\* exception into a result
GenerateDocument(dir, documentType, orderData, filename, m) ==
  LET filePath == IF filename # NULL THEN OutputDir \o "/" \o filename
                  ELSE LocalPath(documentType, OrderNumber(orderData), m.now)
  IN IF ~m.renderOk
     THEN [result |-> GenerationFailure(RenderMessage), dir |-> dir]
     ELSE IF ~m.writeOk
     THEN [result |-> GenerationFailure(WriteMessage), dir |-> dir]
     ELSE [result |-> GenerationSuccess(filePath),
           dir |-> WriteFile(dir, filePath)]

\* generateBothDocuments giving up on the pick slip when the receipt failed
GenerateBothDocuments_FailFast(dir, orderData, filename, meets) ==
  LET receipt == GenerateDocument(dir, "receipt", orderData, filename,
                                  meets.receipt)
      pickSlip == GenerateDocument(receipt.dir, "pick_slip", orderData,
                                   filename, meets.pickSlip)
  IN IF receipt.result.success
     THEN [receipt |-> receipt.result, pickSlip |-> pickSlip.result,
           dir |-> pickSlip.dir]
     ELSE [receipt |-> receipt.result, pickSlip |-> receipt.result,
           dir |-> receipt.dir]

\* generateBothDocuments, lines 158-174: Promise.all over the two calls,
\* each of which runs to its end when it is called, the receipt first
GenerateBothDocuments(dir, orderData, filename, meets) ==
  LET receipt == GenerateDocument(dir, "receipt", orderData, filename,
                                  meets.receipt)
      pickSlip == GenerateDocument(receipt.dir, "pick_slip", orderData,
                                   filename, meets.pickSlip)
  IN [receipt |-> receipt.result, pickSlip |-> pickSlip.result,
      dir |-> pickSlip.dir]

\* the names of the uploads a bucket may hold when its health is checked
StoredNames ==
  {FileName(t, OrderNumber("o1"), now) : t \in {"receipt", "pick_slip"},
                                          now \in 1..MaxStored}

\* the file names a caller may pass in options
Filenames == {NULL, "out.pdf"}

\* a caller invokes generateBothDocuments(orderData, options)
GenerateBoth(orderData, filename, meets) ==
  /\ facade.n < MaxFacadeCalls
  /\ meets.receipt.now \in {clock, clock + 1}
  /\ meets.pickSlip.now \in {meets.receipt.now, meets.receipt.now + 1}
  /\ LET both == GenerateBothDocuments(files, orderData, filename, meets)
     IN /\ facade' = [n |-> facade.n + 1, before |-> files,
                      orderData |-> orderData, filename |-> filename,
                      meets |-> meets,
                      result |-> [receipt |-> both.receipt,
                                  pickSlip |-> both.pickSlip]]
        /\ files' = both.dir
  /\ clock' = meets.pickSlip.now
  /\ UNCHANGED <<docs, pc, call, ncalls, storage, config, bucket, ensure, health, outer>>

InitFacade ==
  /\ env = Env(TRUE, TRUE)
  /\ config = Snapshot(env)
  /\ bucket = Bucket(TRUE)
  /\ docs = <<>>
  /\ pc = [p \in Procs |-> "idle"]
  /\ call = [p \in Procs |-> IdleCall]
  /\ ncalls = 0
  /\ storage = {}
  /\ clock = 0
  /\ files = {}
  /\ ensure = [e \in Callers |-> IdleEnsure]
  /\ facade = IdleFacade
  /\ health = IdleHealth
  /\ writes = 0
  /\ orders = Orders
  /\ intake = IdleIntake
  /\ sales = NoSales

NextFacade ==
  \E orderData \in Orders, filename \in Filenames,
     r \in [renderOk : BOOLEAN, writeOk : BOOLEAN, now : Times],
     s \in [renderOk : BOOLEAN, writeOk : BOOLEAN, now : Times] :
     GenerateBoth(orderData, filename, [receipt |-> r, pickSlip |-> s])

SpecFacade == InitFacade /\ [][NextFacade]_vars

\* ---------------------------------------------------- getHealthStatus
\* listFiles, lines 508-535: the objects of the folder, none on any error
ListFiles(stored, folder, ok) ==
  IF ok THEN {o \in stored : o.path \in {StoragePath(folder, n) : n \in StoredNames}}
  ELSE {}

\* getStorageStats, lines 575-621
GetStorageStats(stored, folder, ok) ==
  StorageStats(Cardinality(ListFiles(stored, folder, ok)))

\* getHealthStatus' return value with a storage check that wants a file
HealthStatus_StorageHasFiles(dbError, storageStats, canGenerate) ==
  [healthy |-> dbError = NULL /\ canGenerate,
   database |-> dbError = NULL,
   storage |-> storageStats.totalFiles > 0,
   configuration |-> canGenerate,
   error |-> NULL,
   storageStats |-> storageStats]

\* getHealthStatus, lines 683-690
HealthStatus(dbError, storageStats, canGenerate) ==
  [healthy |-> dbError = NULL /\ canGenerate,
   database |-> dbError = NULL,
   storage |-> storageStats.totalFiles >= 0,
   configuration |-> canGenerate,
   error |-> NULL,
   storageStats |-> storageStats]

\* getHealthStatus, lines 670-675 and 692-701: getSupabase, whose throw the
\* catch block answers, then the select on orders
HealthStart ==
  /\ health.pc \in {"idle", "done"}
  /\ health' = IF GetSupabase(config) # NULL
               THEN [IdleHealth EXCEPT !.pc = "done",
                                       !.result = Unhealthy(GetSupabase(config))]
               ELSE [IdleHealth EXCEPT !.pc = "select"]
  /\ UNCHANGED <<docs, pc, call, ncalls, storage, clock, config, files,
                 bucket, ensure, facade, outer>>

\* getHealthStatus, lines 672-678: the select has returned and
\* getStorageStats lists the folder
HealthSelect(dbOk) ==
  /\ health.pc = "select"
  /\ health' = [health EXCEPT !.pc = "list",
                              !.dbError = IF dbOk THEN NULL ELSE SelectMessage]
  /\ UNCHANGED <<docs, pc, call, ncalls, storage, clock, config, files,
                 bucket, ensure, facade, outer>>

\* getHealthStatus, lines 678-690: the listing has returned, the stats are
\* counted and the status is put together
HealthList(ok) ==
  /\ health.pc = "list"
  /\ health' = [health EXCEPT
                  !.pc = "done",
                  !.listError = IF ok THEN NULL ELSE ProviderMessage,
                  !.result = HealthStatus(health.dbError,
                                          GetStorageStats(storage, "documents", ok),
                                          CanGenerateDocuments(config))]
  /\ UNCHANGED <<docs, pc, call, ncalls, storage, clock, config, files,
                 bucket, ensure, facade, outer>>

\* a process of any configuration whose bucket holds some uploads
InitHealth ==
  /\ \E enabled \in BOOLEAN, credentials \in BOOLEAN :
       env = Env(enabled, credentials)
  /\ config = Snapshot(env)
  /\ \E names \in SUBSET StoredNames :
       storage = {Object(StoragePath("documents", n), 1) : n \in names}
  /\ bucket = Bucket(TRUE)
  /\ docs = <<>>
  /\ pc = [p \in Procs |-> "idle"]
  /\ call = [p \in Procs |-> IdleCall]
  /\ ncalls = 0
  /\ clock = 0
  /\ files = {}
  /\ ensure = [e \in Callers |-> IdleEnsure]
  /\ facade = IdleFacade
  /\ health = IdleHealth
  /\ writes = 0
  /\ orders = Orders
  /\ intake = IdleIntake
  /\ sales = NoSales

NextHealth ==
  \/ HealthStart
  \/ \E dbOk \in BOOLEAN : HealthSelect(dbOk)
  \/ \E ok \in BOOLEAN : HealthList(ok)

SpecHealth == InitHealth /\ [][NextHealth]_vars

\* ------------------------------------------------ configuration object
\* an environment that sets every variable
FullEnv ==
  [key \in EnvKeys |->
     IF FlagValues = ValuesOf(key) THEN "true"
     ELSE IF NumberValues = ValuesOf(key) THEN "5" ELSE "set"]

\* something in the process assigns process.env[key]
SetEnv(key, value) ==
  /\ writes < MaxEnvWrites
  /\ value # env[key]
  /\ env' = [env EXCEPT ![key] = value]
  /\ writes' = writes + 1
  /\ UNCHANGED <<docs, pc, call, ncalls, storage, clock, config, files,
                 bucket, ensure, facade, health, orders, intake, sales>>

\* the module has been loaded and the configuration object constructed
InitConfig ==
  /\ env \in {Env(FALSE, FALSE), Env(TRUE, TRUE), FullEnv}
  /\ config = Snapshot(env)
  /\ writes = 0
  /\ docs = <<>>
  /\ pc = [p \in Procs |-> "idle"]
  /\ call = [p \in Procs |-> IdleCall]
  /\ ncalls = 0
  /\ storage = {}
  /\ clock = 0
  /\ files = {}
  /\ bucket = Bucket(TRUE)
  /\ ensure = [e \in Callers |-> IdleEnsure]
  /\ facade = IdleFacade
  /\ health = IdleHealth
  /\ orders = Orders
  /\ intake = IdleIntake
  /\ sales = NoSales

NextConfig == \E key \in EnvKeys : \E value \in ValuesOf(key) : SetEnv(key, value)

SpecConfig == InitConfig /\ [][NextConfig]_vars

\* ------------------------------------------------- deletion of an order
\* no call of the document service is in flight
Quiet == \A q \in Procs : Free(q)

\* from("orders").delete(): the order goes, and with it, by the foreign key
\* of order_documents, its tracking rows
DeleteOrder(orderId) ==
  /\ orderId \in orders
  /\ orders' = orders \ {orderId}
  /\ docs' = CascadeDelete(docs, orderId)
  /\ UNCHANGED <<pc, call, ncalls, storage, clock, config, files,
                 bucket, ensure, facade, health, env, writes, intake, sales>>

\* a process with a failed row or none, whose calls come one at a time
InitDelete ==
  /\ env = Env(TRUE, TRUE)
  /\ config = Snapshot(env)
  /\ docs \in {<<>>, <<FailedRow>>}
  /\ pc = [p \in Procs |-> "idle"]
  /\ call = [p \in Procs |-> IdleCall]
  /\ ncalls = 0
  /\ storage = {}
  /\ clock = 0
  /\ files = {}
  /\ bucket = Bucket(TRUE)
  /\ ensure = [e \in Callers |-> IdleEnsure]
  /\ facade = IdleFacade
  /\ health = IdleHealth
  /\ writes = 0
  /\ orders = Orders
  /\ intake = IdleIntake
  /\ sales = NoSales

NextDelete ==
  \/ \E p \in Procs, o \in OrderIds, t \in {"receipt", "pick_slip", "both"},
          dbOk \in BOOLEAN : Quiet /\ StartGenerate(p, o, t, dbOk)
  \/ \E p \in Procs, d \in DocIds, dbOk \in BOOLEAN :
        Quiet /\ StartRetry(p, d, dbOk)
  \/ \E p \in Procs, dbOk \in BOOLEAN : RetryIncrement(p, dbOk)
  \/ \E p \in Procs, dbOk \in BOOLEAN : Fetch(p, dbOk)
  \/ \E p \in Procs, dbOk \in BOOLEAN, renderOk \in BOOLEAN :
        Create(p, dbOk, renderOk)
  \/ \E p \in Procs, ok \in BOOLEAN, now \in Times : Upload(p, ok, now)
  \/ \E p \in Procs, dbOk \in BOOLEAN : Update(p, dbOk)
  \/ \E o \in Orders : DeleteOrder(o)

SpecDelete == InitDelete /\ [][NextDelete]_vars

\* ---------------------------------------------------------- order intake
\* POST /api/purchase-orders. The products and addons tables as the seed
\* route fills them
ProductTable ==
  {[id |-> "p1", type |-> "starter", price_per_bundle |-> 30],
   [id |-> "p2", type |-> "premium", price_per_bundle |-> 40]}
DeliveryAddon == [id |-> "a1", name |-> "Delivery & Disposal", price |-> 99]

\* the request bodies: the product lines of the form, each with the type as
\* the form sends it and the quantity, and the delivery choice
RequestTypes == {"starter", "PREMIUM", "bulk"}
RequestProducts == [type : RequestTypes, quantity : 0..MaxQuantity]
Bodies ==
  [products : UNION {[1..n -> RequestProducts] : n \in 0..MaxItems},
   deliverySelected : BOOLEAN]

\* the replies of the route
IntakeFailure(status, error) ==
  [status |-> status, success |-> FALSE, error |-> error,
   orderId |-> NULL, totalAmount |-> 0]
IntakeSuccess(orderId, totalAmount) ==
  [status |-> 200, success |-> TRUE, error |-> NULL,
   orderId |-> orderId, totalAmount |-> totalAmount]

\* lines 53-60: the lines with a quantity, and the products selected for
\* their lower-cased types
Ordered(products) == SelectSeq(products, LAMBDA p : p.quantity > 0)
ProductTypes(products) ==
  {ToLowerCase(Ordered(products)[i].type) : i \in 1..Len(Ordered(products))}
SelectProducts(types) == {r \in ProductTable : r.type \in types}

\* lines 73-91: the first line whose product the select did not return
\* ends the request; every other line becomes an order item at the database
\* price
Known(dbProducts, type) == \E r \in dbProducts : r.type = ToLowerCase(type)
Find(dbProducts, type) == CHOOSE r \in dbProducts : r.type = ToLowerCase(type)
Unknown(ordered, dbProducts) ==
  {i \in 1..Len(ordered) : ~Known(dbProducts, ordered[i].type)}
FirstOf(indices) == CHOOSE i \in indices : \A j \in indices : i <= j
OrderItem(dbProduct, quantity) ==
  [product_id |-> dbProduct.id, quantity |-> quantity,
   unit_price |-> dbProduct.price_per_bundle,
   total_price |-> dbProduct.price_per_bundle * quantity]
OrderItemsData(ordered, dbProducts) ==
  [i \in 1..Len(ordered) |->
     OrderItem(Find(dbProducts, ordered[i].type), ordered[i].quantity)]
RECURSIVE ProductTotal(_)
ProductTotal(items) ==
  IF items = <<>> THEN 0
  ELSE items[1].total_price + ProductTotal(Tail(items))

\* lines 118-137 and 154-157, 173-177: the rows the route inserts
OrderInsert(id, productTotal, addonTotal) ==
  [id |-> id, subtotal |-> productTotal, addon_total |-> addonTotal,
   total |-> productTotal + addonTotal, status |-> "pending"]
OrderItems(orderId, items) ==
  [i \in 1..Len(items) |->
     [order_id |-> orderId, product_id |-> items[i].product_id,
      quantity |-> items[i].quantity, unit_price |-> items[i].unit_price,
      total_price |-> items[i].total_price]]
OrderAddon(orderId, addon) ==
  [order_id |-> orderId, addon_id |-> addon.id, price |-> addon.price]

\* the id the database gives the n-th order the route inserts
NewOrderId(n) == "n" \o ToString(n)

\* the request returns with a reply
IntakeReturn(reply) ==
  intake' = [intake EXCEPT !.pc = "done", !.reply = reply]

\* the step after the orders insert: lines 153, 172 and 190
AfterOrder(c) ==
  IF Len(c.orderItemsData) > 0 THEN "items"
  ELSE IF c.deliveryAddon # NoAddon THEN "orderAddon"
  ELSE "done"

\* lines 35-50: a request arrives and the route asks for an order number
IntakeStart(body, ok) ==
  /\ intake.pc \in {"idle", "done"}
  /\ intake.n < MaxIntakeCalls
  /\ intake' = [IdleIntake EXCEPT
                  !.n = intake.n + 1,
                  !.body = body,
                  !.pc = IF ok THEN "products" ELSE "done",
                  !.reply = IF ok THEN NoIntakeReply
                            ELSE IntakeFailure(500, "Failed to generate order number")]
  /\ UNCHANGED <<docs, pc, call, ncalls, storage, clock, config, files,
                 bucket, ensure, facade, health, env, writes, orders, sales>>

\* lines 57-113: the products select has returned; the loop prices the
\* lines, and the addon select is sent when delivery is chosen
IntakeProducts(ok) ==
  /\ intake.pc = "products"
  /\ LET ordered == Ordered(intake.body.products)
         dbProducts == SelectProducts(ProductTypes(intake.body.products))
         unknown == Unknown(ordered, dbProducts)
     IN IF ~ok
        THEN IntakeReturn(IntakeFailure(500, "Failed to fetch products"))
        ELSE IF unknown # {}
        THEN IntakeReturn(IntakeFailure(400,
               "Product type " \o ordered[FirstOf(unknown)].type \o " not found"))
        ELSE intake' = [intake EXCEPT
               !.orderItemsData = OrderItemsData(ordered, dbProducts),
               !.productTotal = ProductTotal(OrderItemsData(ordered, dbProducts)),
               !.pc = IF intake.body.deliverySelected THEN "addon" ELSE "order"]
  /\ UNCHANGED <<docs, pc, call, ncalls, storage, clock, config, files,
                 bucket, ensure, facade, health, env, writes, orders, sales>>

\* lines 98-115: the addon select has returned
IntakeAddon(ok) ==
  /\ intake.pc = "addon"
  /\ IF ~ok
     THEN IntakeReturn(IntakeFailure(500, "Failed to fetch addon"))
     ELSE intake' = [intake EXCEPT !.addonTotal = DeliveryAddon.price,
                                   !.deliveryAddon = DeliveryAddon,
                                   !.pc = "order"]
  /\ UNCHANGED <<docs, pc, call, ncalls, storage, clock, config, files,
                 bucket, ensure, facade, health, env, writes, orders, sales>>

\* lines 139-150: the orders insert has returned
IntakeOrder(ok) ==
  /\ intake.pc = "order"
  /\ LET id == NewOrderId(Cardinality(sales.orders) + 1)
         totalAmount == intake.productTotal + intake.addonTotal
     IN IF ~ok
        THEN /\ IntakeReturn(IntakeFailure(500, "Failed to create order"))
             /\ UNCHANGED <<orders, sales>>
        ELSE /\ sales' = [sales EXCEPT !.orders = @ \cup
                            {OrderInsert(id, intake.productTotal,
                                         intake.addonTotal)}]
             /\ orders' = orders \cup {id}
             /\ intake' = [intake EXCEPT
                  !.order = id,
                  !.pc = AfterOrder(intake),
                  !.reply = IF AfterOrder(intake) = "done"
                            THEN IntakeSuccess(id, totalAmount) ELSE @]
  /\ UNCHANGED <<docs, pc, call, ncalls, storage, clock, config, files,
                 bucket, ensure, facade, health, env, writes>>

\* lines 159-168: the order_items insert has returned
IntakeItems(ok) ==
  /\ intake.pc = "items"
  /\ LET last == intake.deliveryAddon = NoAddon
         totalAmount == intake.productTotal + intake.addonTotal
     IN IF ~ok
        THEN /\ IntakeReturn(IntakeFailure(500, "Failed to create order items"))
             /\ sales' = sales
        ELSE /\ sales' = [sales EXCEPT !.order_items = @ \o
                            OrderItems(intake.order, intake.orderItemsData)]
             /\ intake' = [intake EXCEPT
                  !.pc = IF last THEN "done" ELSE "orderAddon",
                  !.reply = IF last THEN IntakeSuccess(intake.order, totalAmount)
                            ELSE @]
  /\ UNCHANGED <<docs, pc, call, ncalls, storage, clock, config, files,
                 bucket, ensure, facade, health, env, writes, orders>>

\* lines 179-194: the order_addons insert has returned
IntakeOrderAddon(ok) ==
  /\ intake.pc = "orderAddon"
  /\ IF ~ok
     THEN /\ IntakeReturn(IntakeFailure(500, "Failed to create order addon"))
          /\ sales' = sales
     ELSE /\ sales' = [sales EXCEPT !.order_addons = @ \cup
                         {OrderAddon(intake.order, intake.deliveryAddon)}]
          /\ IntakeReturn(IntakeSuccess(intake.order,
                            intake.productTotal + intake.addonTotal))
  /\ UNCHANGED <<docs, pc, call, ncalls, storage, clock, config, files,
                 bucket, ensure, facade, health, env, writes, orders>>

\* A workload of purchase order requests, one after the other
InitIntake ==
  /\ env = Env(TRUE, TRUE)
  /\ config = Snapshot(env)
  /\ docs = <<>>
  /\ pc = [p \in Procs |-> "idle"]
  /\ call = [p \in Procs |-> IdleCall]
  /\ ncalls = 0
  /\ storage = {}
  /\ clock = 0
  /\ files = {}
  /\ bucket = Bucket(TRUE)
  /\ ensure = [e \in Callers |-> IdleEnsure]
  /\ facade = IdleFacade
  /\ health = IdleHealth
  /\ writes = 0
  /\ orders = Orders
  /\ intake = IdleIntake
  /\ sales = NoSales

NextIntake ==
  \/ \E body \in Bodies, ok \in BOOLEAN : IntakeStart(body, ok)
  \/ \E ok \in BOOLEAN : IntakeProducts(ok)
  \/ \E ok \in BOOLEAN : IntakeAddon(ok)
  \/ \E ok \in BOOLEAN : IntakeOrder(ok)
  \/ \E ok \in BOOLEAN : IntakeItems(ok)
  \/ \E ok \in BOOLEAN : IntakeOrderAddon(ok)

SpecIntake == InitIntake /\ [][NextIntake]_vars

TypeOK ==
  /\ Len(docs) <= MaxDocs
  /\ \A i \in 1..Len(docs) :
       Present(docs, i) => docs[i].status \in {"pending", "generated", "failed"}
  /\ ncalls \in Nat

\* ------------------------------------------------------------ properties
Done(p) == pc[p] = "done"
Fetched(c) == c.idx >= 1
CreatedIds(c) == {c.created[i] : i \in 1..Len(c.created)}
Entries(c) == {c.response.documents.receipt, c.response.documents.pickSlip} \ {NoDoc}
Settled == {"generated", "failed"}
InsertAborted(c) == c.response.error = CreateError(InsertMessage)

\* a generateDocuments('both') call on an existing order whose data was fetched
BothCall(p) ==
  /\ call[p].kind = "generateDocuments"
  /\ call[p].documentType = "both"
  /\ call[p].orderId \in Orders
  /\ Fetched(call[p])

\* C1 as stated: when a 'both' call on an existing order returns, it has made
\* exactly two rows, a receipt and a pick slip, each generated or failed,
\* whatever the outcomes of the inserts and updates.
C1_Original ==
  \A p \in Procs : (Done(p) /\ BothCall(p)) =>
    /\ Len(call[p].created) = 2
    /\ docs[call[p].created[1]].document_type = "receipt"
    /\ docs[call[p].created[2]].document_type = "pick_slip"
    /\ \A i \in CreatedIds(call[p]) : docs[i].status \in Settled

\* C1 amended: when a 'both' call on an existing order returns and no insert
\* failed, it has made exactly two rows of that order, a receipt then a pick
\* slip; a failed insert ends the call with at most one row made; every made
\* row whose update succeeded is generated or failed unless a retryDocument
\* reset it since, and a made row whose update failed is still pending.
C1_Amended ==
  \A p \in Procs : (Done(p) /\ BothCall(p)) =>
    LET c == call[p] IN
    /\ ~InsertAborted(c) =>
         /\ Len(c.created) = 2
         /\ c.created[1] # c.created[2]
         /\ docs[c.created[1]].document_type = "receipt"
         /\ docs[c.created[2]].document_type = "pick_slip"
         /\ \A i \in CreatedIds(c) : docs[i].order_id = c.orderId
    /\ InsertAborted(c) => Len(c.created) <= 1
    /\ \A i \in CreatedIds(c) :
         /\ (i \in c.updated /\ docs[i].retry_count = 0) => docs[i].status \in Settled
         /\ i \notin c.updated => docs[i].status = "pending"

C1_Witness ==
  \E p \in Procs :
    /\ Done(p) /\ BothCall(p)
    /\ Len(call[p].created) = 2
    /\ CreatedIds(call[p]) = call[p].updated
    /\ docs[call[p].created[1]].status = "failed"
    /\ docs[call[p].created[2]].status = "generated"

\* C2 as stated: when a retryDocument call on an existing row returns, the
\* row has its retry_count raised by one and is generated or failed; taken
\* here in the most favourable case, a call all of whose steps succeeded and
\* that ran with no other call in flight.
C2_Original ==
  \A p \in Procs :
    (/\ Done(p) /\ call[p].kind = "retryDocument"
     /\ call[p].document # NoRecord
     /\ call[p].response.success
     /\ CreatedIds(call[p]) \cup {call[p].documentId} \subseteq call[p].updated
     /\ \A q \in Procs \ {p} : Free(q)) =>
      /\ docs[call[p].documentId].retry_count = call[p].document.retry_count + 1
      /\ docs[call[p].documentId].status \in Settled

\* C3 as stated: a retryDocument call inserts no row, and the outcome of its
\* generation is reported for the row whose id was passed.
C3_Original ==
  \A p \in Procs : call[p].kind = "retryDocument" =>
    /\ call[p].created = <<>>
    /\ Done(p) => \A e \in Entries(call[p]) : e.id = call[p].documentId

\* C4 as stated: a row's status only goes from pending to generated or failed,
\* or back to pending together with a retry_count increment, and retry_count
\* never decreases.
RowStepAllowed(old, new) ==
  /\ new.retry_count >= old.retry_count
  /\ new.status # old.status =>
       \/ old.status = "pending" /\ new.status \in Settled
       \/ new.status = "pending" /\ new.retry_count = old.retry_count + 1

C4_Original ==
  [][\A i \in 1..Len(docs) : RowStepAllowed(docs[i], docs'[i])]_vars

\* C5 as stated: in a 'both' call a failure of one type, at row creation
\* included, does not abort the other: both outcomes are in the response.
C5_Original ==
  \A p \in Procs : (Done(p) /\ BothCall(p)) =>
    /\ call[p].response.documents.receipt # NoDoc
    /\ call[p].response.documents.pickSlip # NoDoc

\* C5 amended: in a 'both' call a render, upload or row-update failure of one
\* type does not abort the other: unless a row insert failed, the response
\* carries an entry for the receipt and one for the pick slip, and success is
\* false exactly when one of them is failed; a failed row insert aborts the
\* call, which answers success false without any per-document entry.
C5_Amended ==
  \A p \in Procs : (Done(p) /\ BothCall(p)) =>
    LET c == call[p]
        d == c.response.documents
    IN IF InsertAborted(c)
       THEN ~c.response.success /\ d = NoDocuments
       ELSE /\ d.receipt.status \in Settled
            /\ d.pickSlip.status \in Settled
            /\ d.receipt.id = c.created[1]
            /\ d.pickSlip.id = c.created[2]
            /\ c.response.success <=>
                 (d.receipt.status = "generated" /\ d.pickSlip.status = "generated")

C5_Witness ==
  \E p \in Procs :
    /\ Done(p) /\ BothCall(p)
    /\ call[p].response.documents.receipt.status = "failed"
    /\ call[p].response.documents.pickSlip.status = "generated"
    /\ ~call[p].response.success

\* the document types a call of generateDocuments was asked for
Requested(c) == {RequestedTypes(c.documentType)[i] :
                   i \in 1..Len(RequestedTypes(c.documentType))}

EntryOf(c, documentType) ==
  IF documentType = "receipt" THEN c.response.documents.receipt
  ELSE c.response.documents.pickSlip

\* C6: when a generateDocuments call on an existing order returns, a failed
\* document (a failed response entry or a failed row of the call) means
\* success is false, and success true means every requested type has an entry
\* with status generated.
C6_SuccessFlag ==
  \A p \in Procs : (Done(p) /\ Fetched(call[p])) =>
    LET c == call[p] IN
    /\ (\E e \in Entries(c) : e.status = "failed") => ~c.response.success
    /\ (\E i \in CreatedIds(c) : docs[i].status = "failed") => ~c.response.success
    /\ c.response.success =>
         \A t \in Requested(c) : EntryOf(c, t).status = "generated"

C6_Witness ==
  \E p \in Procs :
    /\ Done(p) /\ BothCall(p)
    /\ call[p].response.documents.receipt.status = "generated"
    /\ call[p].response.documents.pickSlip.status = "failed"
    /\ docs[call[p].response.documents.pickSlip.id].status = "failed"
    /\ ~call[p].response.success

\* C7: a generateDocuments call for an order id that does not exist returns
\* from its order fetch with success false and the error 'Order not found',
\* without reaching a row insert or update: it has made and updated no row.
C7_OrderNotFound ==
  \A p \in Procs :
    (call[p].kind = "generateDocuments" /\ call[p].orderId \notin Orders) =>
      /\ Done(p)
      /\ call[p].created = <<>>
      /\ call[p].updated = {}
      /\ call[p].response = ErrorResponse("Order not found")

C7_Witness ==
  \E p \in Procs :
    /\ Done(p)
    /\ call[p].kind = "generateDocuments"
    /\ call[p].orderId \notin Orders
    /\ Len(docs) > 0

\* a pass of handler p's call is in flight: its row is inserted, not updated
InFlight(p) == pc[p] \in {"upload", "update"}

\* C8 as stated: the two passes of a 'both' call are dispatched together, so
\* while the receipt pass is in flight the pick-slip pass has started too.
C8_Original ==
  \A p \in Procs :
    (BothCall(p) /\ InFlight(p) /\ CurrentType(call[p]) = "receipt") =>
      Len(call[p].created) = 2

\* C8 amended: the two passes of a 'both' call run one after the other,
\* receipt first: the pick-slip row is inserted only after the receipt pass
\* has returned its outcome, and the call returns only after both passes have
\* returned or a row insert has failed.
C8_Amended ==
  \A p \in Procs : BothCall(p) =>
    LET c == call[p] IN
    /\ Len(c.created) >= 1 => docs[c.created[1]].document_type = "receipt"
    /\ (Len(c.created) = 1 /\ InFlight(p)) =>
         c.response.documents = NoDocuments
    /\ Len(c.created) = 2 =>
         /\ docs[c.created[2]].document_type = "pick_slip"
         /\ InsertAborted(c) \/ c.response.documents.receipt.id = c.created[1]
    /\ (Done(p) /\ ~InsertAborted(c)) =>
         /\ c.response.documents.receipt.status \in Settled
         /\ c.response.documents.pickSlip.status \in Settled

C8_Witness ==
  \E p \in Procs :
    /\ BothCall(p)
    /\ pc[p] = "upload"
    /\ Len(call[p].created) = 2
    /\ call[p].response.documents.receipt.status = "generated"
    /\ docs[call[p].created[1]].status = "generated"
    /\ docs[call[p].created[2]].status = "pending"

\* a step of handler p inside generateDocuments
GenerateStep(p) ==
  /\ pc'[p] # pc[p] \/ call'[p] # call[p]
  /\ pc[p] # "increment"
  /\ ~(pc[p] = "done" /\ pc'[p] = "idle")

\* C9: every insert of generateDocuments makes a row with an id no row had
\* before, and a generateDocuments call changes no field of a row it did not
\* insert itself, a row of the same order and type that an earlier call made
\* included.
C9_NewRowEachCall ==
  [][\A p \in Procs : GenerateStep(p) =>
       /\ \A i \in 1..Len(docs) :
            i \notin CreatedIds(call[p]) => (Len(docs') >= i /\ docs'[i] = docs[i])
       /\ CreatedIds(call'[p]) \ CreatedIds(call[p]) \subseteq
            (1..Len(docs')) \ (1..Len(docs))]_vars

C9_Witness ==
  \E p \in Procs :
    /\ Done(p)
    /\ call[p].kind = "generateDocuments"
    /\ \E i \in CreatedIds(call[p]), j \in 1..Len(docs) :
         /\ j < i /\ j \notin CreatedIds(call[p])
         /\ docs[j].order_id = docs[i].order_id
         /\ docs[j].document_type = docs[i].document_type
         /\ docs[j].status = "generated"
         /\ docs[i].status \in Settled

\* the response entries of passes whose upload failed
UploadFailedEntries(c) ==
  {e \in Entries(c) : e.error = UploadFailure(ProviderMessage).error}

\* C10 as stated: after uploadFile returned {success:false, error:'x'} the row
\* of the pass is failed with an error_message containing 'x' and no file_url.
C10_Original ==
  \A p \in Procs : \A e \in UploadFailedEntries(call[p]) :
    /\ docs[e.id].status = "failed"
    /\ docs[e.id].error_message # NULL
    /\ Contains(docs[e.id].error_message, ProviderMessage)
    /\ docs[e.id].file_url = NULL

\* C10 amended: after uploadFile returned {success:false, error:'x'} the row
\* of the pass has no file_url; if the row update succeeded its error_message
\* contains 'x' and it is failed until a retryDocument resets it to pending;
\* if the row update failed the row stays pending without an error_message.
C10_Amended ==
  \A p \in Procs : \A e \in UploadFailedEntries(call[p]) :
    /\ e.status = "failed" /\ e.fileUrl = ""
    /\ docs[e.id].file_url = NULL
    /\ e.id \in call[p].updated =>
         /\ docs[e.id].error_message # NULL
         /\ Contains(docs[e.id].error_message, ProviderMessage)
         /\ docs[e.id].status = "failed" \/ docs[e.id].retry_count > 0
    /\ e.id \notin call[p].updated =>
         /\ docs[e.id].status = "pending"
         /\ docs[e.id].error_message = NULL

C10_Witness ==
  \E p \in Procs : \E e \in UploadFailedEntries(call[p]) :
    /\ e.id \in call[p].updated
    /\ docs[e.id].status = "failed"
    /\ docs[e.id].error_message = "Upload failed: " \o ProviderMessage
    /\ docs[e.id].file_url = NULL

\* ------------------------------------------------- getOrderDocuments (C11)
\* select('*').eq('order_id', orderId).order('created_at', descending): the
\* rows of the order with their ids, newest first; ids follow creation order
Newest(table) == [k \in 1..Len(table) |-> Len(table) + 1 - k]

WithId(row, i) ==
  [id |-> i, order_id |-> row.order_id, document_type |-> row.document_type,
   status |-> row.status, retry_count |-> row.retry_count,
   file_url |-> row.file_url, file_path |-> row.file_path,
   error_message |-> row.error_message]

GetOrderDocuments_GeneratedOnly(table, orderId) ==
  LET OfOrder(i) == table[i].order_id = orderId /\ table[i].status = "generated"
      ids == SelectSeq(Newest(table), OfOrder)
  IN [k \in 1..Len(ids) |-> WithId(table[ids[k]], ids[k])]

GetOrderDocuments(table, orderId) ==
  LET OfOrder(i) == table[i].order_id = orderId
      ids == SelectSeq(Newest(table), OfOrder)
  IN [k \in 1..Len(ids) |-> WithId(table[ids[k]], ids[k])]

\* the rows getOrderDocuments returns for a document id
RowsOf(orderId, id) ==
  LET rows == GetOrderDocuments(docs, orderId)
  IN {rows[k] : k \in {j \in 1..Len(rows) : rows[j].id = id}}

\* a returned row says what a response entry says
SameOutcome(e, row) ==
  /\ row.status = e.status
  /\ e.status = "generated" => row.file_url = e.fileUrl
  /\ e.status = "failed" => row.error_message = e.error

\* C11 as stated: when a generateDocuments or retryDocument call returns and
\* no other call is in flight, getOrderDocuments returns for every document id
\* of the response a row with the status of the response entry, its fileUrl
\* when generated and its error when failed.
C11_Original ==
  \A p \in Procs :
    (Done(p) /\ \A q \in Procs \ {p} : Free(q)) =>
      \A e \in Entries(call[p]) :
        /\ RowsOf(call[p].orderId, e.id) # {}
        /\ \A row \in RowsOf(call[p].orderId, e.id) : SameOutcome(e, row)

\* C11 amended: when a generateDocuments or retryDocument call returns,
\* getOrderDocuments returns exactly one row for every document id of the
\* response; if the row update of the pass succeeded and no retryDocument has
\* reset the row since, the row has the status of the response entry, its
\* fileUrl when generated and its error when failed; if the row update failed
\* the row is pending with no file_url, whatever the response entry says.
C11_Amended ==
  \A p \in Procs : Done(p) =>
    \A e \in Entries(call[p]) :
      /\ Cardinality(RowsOf(call[p].orderId, e.id)) = 1
      /\ \A row \in RowsOf(call[p].orderId, e.id) :
           /\ (e.id \in call[p].updated /\ row.retry_count = 0) =>
                SameOutcome(e, row)
           /\ e.id \notin call[p].updated =>
                row.status = "pending" /\ row.file_url = NULL

C11_Witness ==
  \E p \in Procs :
    /\ Done(p) /\ BothCall(p)
    /\ \E e1, e2 \in Entries(call[p]) :
         /\ e1.status = "generated" /\ e2.status = "failed"
         /\ {e1.id, e2.id} \subseteq call[p].updated
         /\ \E r1 \in RowsOf(call[p].orderId, e1.id) :
              r1.status = "generated" /\ r1.file_url = e1.fileUrl
         /\ \E r2 \in RowsOf(call[p].orderId, e2.id) :
              r2.status = "failed" /\ r2.error_message = e2.error

\* ------------------------------------------------------- route replies
\* the requests to the generate endpoint and to the retry endpoint
Generation == {"generateRequest", "retryRequest",
               "generateDocuments", "retryDocument"}

\* the reply of the route to the request of a call that has returned
Reply(c) ==
  IF c.early # NoReply THEN c.early
  ELSE IF c.thrown # NULL THEN CaughtReply(c.kind)
  ELSE ServiceReply(c.response)

C13_Original ==
  \A p \in Procs :
    (/\ Done(p)
     /\ \/ call[p].kind = "generateDocuments" /\ call[p].orderId \notin Orders
        \/ /\ call[p].kind = "retryDocument"
           /\ call[p].documentId \notin 1..Len(docs)) =>
      /\ ~Reply(call[p]).success
      /\ Reply(call[p]).error # NULL
      /\ Reply(call[p]).status \in 400..499

\* C14 as stated: no public entry point of the document service lets an
\* exception escape to its caller: every call that has returned has returned
\* a value.
C14_Original ==
  \A p \in Procs : Done(p) => call[p].thrown = NULL

\* ------------------------------------------------------ stored objects
\* the response entries of passes whose upload met a taken path
DuplicateEntries(c) ==
  {e \in Entries(c) : e.error = UploadFailure(DuplicateMessage).error}

\* C15 as stated, for the losing pass: a pass whose upload met a taken path
\* ends with its tracking row in status failed.
C15_Original ==
  \A p \in Procs : \A e \in DuplicateEntries(call[p]) :
    docs[e.id].retry_count = 0 => docs[e.id].status = "failed"

\* C15 amended: the bucket holds at most one object per path; a row that
\* carries a file_path is the only row with that path and the object at the
\* path still holds the file of that row's pass, whatever uploads came later;
\* a pass whose upload has succeeded has its file at the path; a pass whose
\* upload met a taken path reports failed with no fileUrl, its row has no
\* file_url and is failed with the provider's message if the row update
\* succeeded (until a retryDocument resets it) and pending if it did not.
C15_Amended ==
  /\ \A o1, o2 \in storage : o1.path = o2.path => o1 = o2
  /\ \A i \in 1..Len(docs) :
       docs[i].file_path # NULL =>
         /\ Object(docs[i].file_path, i) \in storage
         /\ \A j \in 1..Len(docs) : docs[j].file_path = docs[i].file_path => j = i
  /\ \A p \in Procs :
       (pc[p] = "update" /\ call[p].uploadResult.success) =>
         Object(call[p].uploadResult.filePath, call[p].documentRecord) \in storage
  /\ \A p \in Procs : \A e \in DuplicateEntries(call[p]) :
       /\ e.status = "failed" /\ e.fileUrl = ""
       /\ docs[e.id].file_url = NULL /\ docs[e.id].file_path = NULL
       /\ \A o \in storage : o.content # e.id
       /\ e.id \in call[p].updated =>
            /\ Contains(docs[e.id].error_message, DuplicateMessage)
            /\ docs[e.id].status = "failed" \/ docs[e.id].retry_count > 0
       /\ e.id \notin call[p].updated => docs[e.id].status = "pending"

C15_Witness ==
  \E p \in Procs : \E e \in DuplicateEntries(call[p]) :
    /\ e.id \in call[p].updated
    /\ docs[e.id].status = "failed"
    /\ \E j \in 1..Len(docs) :
         /\ j # e.id
         /\ docs[j].status = "generated"
         /\ docs[j].document_type = docs[e.id].document_type
         /\ docs[j].order_id = docs[e.id].order_id
         /\ Object(docs[j].file_path, j) \in storage

\* ------------------------------------------------------ attempts (C16)
\* a sequence names no document type twice and only requested types
OncePerType(types, c) ==
  /\ \A i, j \in 1..Len(types) : types[i] = types[j] => i = j
  /\ \A i \in 1..Len(types) : types[i] \in Requested(c)

\* handler p makes the retry_count update of retryDocument on row i
RetryStep(p, i) ==
  /\ call[p].kind = "retryDocument"
  /\ pc[p] = "increment" /\ pc'[p] = "fetch"
  /\ call[p].documentId = i

\* C16: after every step, each call has rendered and uploaded each document
\* type it was asked for at most once, a started upload following the render
\* of the same type, and a step changes the retry_count of a row only if it
\* is the update retryDocument makes on that row.
C16_NoAutomaticRetry ==
  [][/\ \A p \in Procs :
          LET c == call'[p] IN
          c.kind \in {"generateDocuments", "retryDocument"} =>
            /\ OncePerType(c.rendered, c)
            /\ OncePerType(c.uploaded, c)
            /\ Len(c.uploaded) <= Len(c.rendered)
            /\ Len(c.rendered) = Len(c.created)
     /\ \A i \in 1..Len(docs) :
          docs'[i].retry_count # docs[i].retry_count =>
            \E p \in Procs : RetryStep(p, i)]_vars

C16_Witness ==
  /\ \E i \in 1..Len(docs) : docs[i].retry_count = 1
  /\ \E p \in Procs :
       /\ Done(p) /\ BothCall(p)
       /\ call[p].rendered = <<"receipt", "pick_slip">>
       /\ call[p].uploaded = <<"receipt">>
       /\ call[p].response.documents.receipt.status = "failed"
       /\ call[p].response.documents.pickSlip.status = "failed"

\* the step in which handler p's pass returns from updateDocumentRecord
PassReturns(p) == pc[p] = "update" /\ pc'[p] # "update"

\* the row of handler p's pass after the step
RowAfter(p) == docs'[call[p].documentRecord]

\* C17 (as stated): once a pass has settled its row to generated or failed,
\* the local file the pass wrote is no longer in the output directory.
C17_Original ==
  [][\A p \in Procs :
       (PassReturns(p) /\ call[p].filePath # NULL /\ RowAfter(p).status \in Settled)
         => call[p].filePath \notin files']_vars

\* C17 (amended): a pass whose render and upload succeeded has removed its
\* local file when it returns; a pass whose upload failed leaves the output
\* directory as it found it, its file included.
C17_Amended ==
  [][\A p \in Procs :
       (PassReturns(p) /\ call[p].filePath # NULL)
         => IF call[p].uploadResult.success
            THEN call[p].filePath \notin files'
            ELSE files' = files]_vars

\* a call has a generated document, its file removed, while the file of a
\* pass whose upload failed is still in the output directory
C17_Witness ==
  /\ files # {}
  /\ \E i \in 1..Len(docs) :
       docs[i].status = "failed" /\ docs[i].error_message # RenderMessage
  /\ \E p \in Procs : \E e \in Entries(call[p]) : e.status = "generated"

\* C18 (as stated): with credentials in place and a provider that answers
\* without a fault of its own, every ensureBucket call that has returned,
\* whatever calls it overlapped with, has returned success, and the bucket
\* has been created at most once.
C18_Original ==
  (config.credentials /\ ~bucket.faulty) =>
     /\ \A e \in Callers : ensure[e].pc = "done" => ensure[e].result.success
     /\ bucket.created <= 1

\* the outcome of one generation of the last generateBothDocuments call had
\* it run alone in the directory the call found
Alone(documentType, m) ==
  GenerateDocument(facade.before, documentType, facade.orderData,
                   facade.filename, m).result

\* C19: a generateBothDocuments call returns a receipt outcome and a pick
\* slip outcome, each the outcome that generation has on its own: it
\* succeeds exactly when its own render and write go through, whatever
\* happened to the other.
C19_BothIndependent ==
  facade.n > 0 =>
    /\ facade.result.receipt = Alone("receipt", facade.meets.receipt)
    /\ facade.result.pickSlip = Alone("pick_slip", facade.meets.pickSlip)
    /\ facade.result.receipt.success
         = (facade.meets.receipt.renderOk /\ facade.meets.receipt.writeOk)
    /\ facade.result.pickSlip.success
         = (facade.meets.pickSlip.renderOk /\ facade.meets.pickSlip.writeOk)

\* a call whose receipt failed and whose pick slip was written
C19_Witness ==
  /\ facade.n > 0
  /\ ~facade.result.receipt.success
  /\ facade.result.pickSlip.success
  /\ facade.result.pickSlip.filePath \in files

\* C20: a getHealthStatus call always returns a status. When getSupabase
\* threw, the status is unhealthy and carries the message of the exception;
\* otherwise healthy says that the select came back without an error and
\* generation is enabled, and the storage check is true, also when the
\* listing of the bucket failed.
C20_HealthStatus ==
  health.pc = "done" =>
    IF GetSupabase(config) # NULL
    THEN /\ ~health.result.healthy
         /\ health.result.error = GetSupabase(config)
    ELSE /\ health.result.healthy
              = (health.dbError = NULL /\ CanGenerateDocuments(config))
         /\ health.result.storage
         /\ health.result.error = NULL

\* a status reported healthy although the listing of the bucket failed
C20_Witness ==
  /\ health.pc = "done"
  /\ health.listError # NULL
  /\ storage # {}
  /\ health.result.healthy
  /\ health.result.storage

\* C21 (as stated): no change of the environment after the construction of
\* the configuration object changes the result of a predicate or of a
\* validation function.
C21_Original ==
  [][/\ Predicates(config') = Predicates(config)
     /\ Validations(config', env') = Validations(config, env)]_vars

\* C21 (amended): no change of the environment changes the result of a
\* predicate or of validateWebhookConfig; validateEmailConfig and
\* validateStorageConfig read RESEND_API_KEY and the two Supabase
\* credentials at the time of the call, so that the storage report of an
\* enabled configuration is valid exactly when both credentials are in the
\* environment now.
C21_Amended ==
  [][/\ Predicates(config') = Predicates(config)
     /\ ValidateWebhookConfig(config') = ValidateWebhookConfig(config)
     /\ ValidateStorageConfig(config', env').valid
          = (~CanGenerateDocuments(config') \/ HasCredentials(env'))
     /\ ValidateEmailConfig(config', env').valid
          = (~CanSendEmails(config')
             \/ (env'["RESEND_API_KEY"] # Unset /\ config'.email.fromEmail # ""))]_vars

\* the flags and a credential were changed after construction: the
\* predicates still answer from the snapshot, the storage report does not
C21_Witness ==
  /\ writes > 0
  /\ Predicates(Snapshot(env)) # Predicates(config)
  /\ config.credentials /\ ~HasCredentials(env)
  /\ ~ValidateStorageConfig(config, env).valid

\* the last element of a sequence of a call's history
LastOf(seq) == seq[Len(seq)]

\* C22: in every step, a render starts on a row its pass has just inserted
\* as pending; an upload is attempted only by a pass whose render succeeded;
\* a row becomes generated only in the update of a pass whose render and
\* upload succeeded; a local file disappears only in the step in which a
\* pass returns from its update to generated, and it is that pass's file.
C22_StepOrder ==
  [][/\ \A p \in Procs :
          /\ Len(call'[p].rendered) > Len(call[p].rendered) =>
               /\ Len(call'[p].created) = Len(call[p].created) + 1
               /\ LastOf(call'[p].created) = Len(docs')
               /\ Len(docs') = Len(docs) + 1
               /\ docs'[Len(docs')].status = "pending"
          /\ Len(call'[p].uploaded) > Len(call[p].uploaded) =>
               /\ call[p].pdfResult.success
               /\ LastOf(call[p].rendered) = LastOf(call'[p].uploaded)
          /\ (pc'[p] = "upload" /\ pc[p] # "upload") => call'[p].pdfResult.success
     /\ \A i \in 1..Len(docs) :
          (docs'[i].status = "generated" /\ docs[i].status # "generated") =>
             \E p \in Procs :
                /\ PassReturns(p) /\ call[p].documentRecord = i
                /\ call[p].pdfResult.success /\ call[p].uploadResult.success
                /\ LastOf(call[p].uploaded) = CurrentType(call[p])
     /\ \A f \in files \ files' :
          \E p \in Procs :
             /\ PassReturns(p) /\ call[p].filePath = f
             /\ call[p].uploadResult.success]_vars

\* a pass has gone through all its steps: its row is generated, its upload
\* is in the bucket and its local file is gone
C22_Witness ==
  \E p \in Procs :
    /\ Done(p)
    /\ call[p].rendered = <<"pick_slip">>
    /\ call[p].uploaded = <<"pick_slip">>
    /\ docs[call[p].created[1]].status = "generated"
    /\ storage # {}
    /\ files = {}

\* every tracking row that is there references an order that is there
RowsReferenceOrders ==
  \A i \in 1..Len(docs) : Present(docs, i) => docs[i].order_id \in orders

\* handler p's call, which had found its order, returns in this step with
\* the order deleted
ReturnsAfterDelete(p) ==
  /\ pc[p] \in {"create", "upload", "update"}
  /\ pc'[p] = "done"
  /\ call'[p].orderId \notin orders'

\* C23 (as stated): every row references an existing order, and a
\* generateDocuments or retryDocument call that returns after its order was
\* deleted under it returns a failure and leaves no row for the order.
C23_Original ==
  [][/\ RowsReferenceOrders'
     /\ \A p \in Procs : ReturnsAfterDelete(p) =>
          /\ ~call'[p].response.success
          /\ \A i \in CreatedIds(call'[p]) : ~Present(docs', i)]_vars

\* C23 (amended): every row references an existing order, and a call that
\* returns after its order was deleted under it leaves no row for the
\* order; it returns a failure when the delete came before an insert of
\* its, and may report its documents generated when the delete came after
\* its last insert.
C23_Amended ==
  [][/\ RowsReferenceOrders'
     /\ \A p \in Procs : ReturnsAfterDelete(p) =>
          /\ \A i \in CreatedIds(call'[p]) : ~Present(docs', i)
          /\ Len(call'[p].created) < Len(RequestedTypes(call'[p].documentType))
               => ~call'[p].response.success]_vars

\* a call has returned success with a generated document whose row went
\* with the order while the pass was under way
C23_Witness ==
  \E p \in Procs :
    /\ Done(p)
    /\ call[p].response.success
    /\ call[p].orderId \notin orders
    /\ call[p].created # <<>>
    /\ \A i \in CreatedIds(call[p]) : ~Present(docs, i)
    /\ storage # {}

\* handler p's retryDocument call makes its step after the select, on row i
LeavesIncrement(p, i) ==
  /\ call[p].kind = "retryDocument"
  /\ pc[p] = "increment" /\ pc'[p] # "increment"
  /\ call[p].documentId = i

\* C24 as stated: a retryDocument call on a row whose status is generated or
\* pending changes no field of that row and triggers no generation.
C24_Original ==
  [][\A p \in Procs : \A i \in 1..Len(docs) :
       (LeavesIncrement(p, i) /\ docs[i].status \in {"generated", "pending"}) =>
          /\ docs'[i] = docs[i]
          /\ pc'[p] = "done"]_vars

\* C25 as stated: when n retryDocument calls on the same row have all
\* returned, whatever their interleaving, the row's retry_count is its
\* initial value plus n. Each call writes the count once, so this says that
\* every such write that reaches the row raises its retry_count by one.
C25_Original ==
  [][\A p \in Procs : \A i \in 1..Len(docs) :
       (RetryStep(p, i) /\ i \in call'[p].updated /\ Present(docs, i)) =>
          docs'[i].retry_count = docs[i].retry_count + 1]_vars

\* C26 as stated: no row has a retry_count greater than the configured
\* generation retry cap.
C26_Original ==
  \A i \in 1..Len(docs) :
    Present(docs, i) => docs[i].retry_count <= config.documentGeneration.maxRetries

\* a row carries a file: its file_url and file_path are set
HasFile(row) == row.file_url # NULL /\ row.file_path # NULL

\* C27 as stated: a row has file_url and file_path set if and only if its
\* status is generated; no pending or failed row carries a file URL.
C27_Original ==
  \A i \in 1..Len(docs) :
    Present(docs, i) =>
      /\ HasFile(docs[i]) <=> docs[i].status = "generated"
      /\ docs[i].status \in {"pending", "failed"} => docs[i].file_url = NULL

\* C28 as stated: when generateBothDocuments succeeds for both documents, the
\* receipt and the pick slip are at two distinct local file paths, both
\* written, for every options value, a caller-supplied filename included.
C28_Original ==
  (/\ facade.n > 0
   /\ facade.result.receipt.success
   /\ facade.result.pickSlip.success) =>
     /\ facade.result.receipt.filePath # facade.result.pickSlip.filePath
     /\ {facade.result.receipt.filePath, facade.result.pickSlip.filePath}
          \subseteq files

\* the document types whose per-type predicate is false under cfg
GatedTypes(cfg) ==
  (IF CanGenerateReceipts(cfg) THEN {} ELSE {"receipt"})
    \cup (IF CanGeneratePickSlips(cfg) THEN {} ELSE {"pick_slip"})

\* C29 as stated: while canGenerateReceipts() is false no receipt tracking
\* row is created and no receipt is rendered or uploaded, and the same for
\* pick slips with canGeneratePickSlips(), through the generate and retry
\* endpoints: no step inserts a row of a gated type, renders one or uploads
\* one.
C29_Original ==
  [][/\ \A i \in (Len(docs) + 1)..Len(docs') :
          docs'[i].document_type \notin GatedTypes(config)
     /\ \A p \in Procs :
          /\ Len(call'[p].rendered) > Len(call[p].rendered) =>
               LastOf(call'[p].rendered) \notin GatedTypes(config)
          /\ Len(call'[p].uploaded) > Len(call[p].uploaded) =>
               LastOf(call'[p].uploaded) \notin GatedTypes(config)]_vars

\* the items of an order, and the sum of quantity times unit price over them
ItemsOf(orderId) == SelectSeq(sales.order_items, LAMBDA r : r.order_id = orderId)
RECURSIVE Priced(_)
Priced(items) ==
  IF items = <<>> THEN 0
  ELSE items[1].quantity * items[1].unit_price + Priced(Tail(items))

\* C30 as stated: whenever POST /api/purchase-orders answers with success
\* false, no orders row of that request remains; and every order it reports
\* as created has total = subtotal + addon_total with subtotal the sum of
\* quantity times database unit price over its items.
C30_Original ==
  intake.pc = "done" =>
    IF intake.reply.success
    THEN \E o \in sales.orders :
           /\ o.id = intake.reply.orderId
           /\ o.total = o.subtotal + o.addon_total
           /\ o.subtotal = Priced(ItemsOf(o.id))
           /\ intake.reply.totalAmount = o.total
    ELSE \A o \in sales.orders : o.id # intake.order

====
